---------------------------- MODULE Spec2Model ----------------------------
(***************************************************************************)
(* Keyword extraction and relevance ranking of app/route/image.py:         *)
(* extract_food_keywords, search_matching_foods and the route that calls   *)
(* one after the other.                                                    *)
(*                                                                         *)
(* A Python str is modelled as a sequence of one-character strings, so     *)
(* that lower(), replace(), split(), strip(), isdigit(), startswith() and  *)
(* the ILIKE pattern match are computed character by character.            *)
(***************************************************************************)
EXTENDS Integers, Sequences, FiniteSets, TLC

VARIABLES
    call,               \* which entry point runs: "extract", "search", "route"
    description,        \* extract_food_keywords: argument
    min_length,         \* extract_food_keywords: argument
    max_keywords,       \* extract_food_keywords: argument
    words,              \* extract_food_keywords: text.split()
    i,                  \* extract_food_keywords: loop index of enumerate(words)
    keywords,           \* extract_food_keywords: the accumulating list
    unique_keywords,    \* extract_food_keywords: the returned list
    search_keywords,    \* search_matching_foods: argument `keywords`
    limit_per_keyword,  \* search_matching_foods: argument
    max_total,          \* search_matching_foods: argument
    catalog,            \* rows of the foods table (Food.id, Food.name)
    idx,                \* search_matching_foods: loop index of enumerate(keywords)
    foods,              \* search_matching_foods: rows of the current query not yet scored
    food_scores,        \* search_matching_foods: the dict, in insertion order
    lookups,            \* what each query issued so far returned (or that it raised)
    unique_foods,       \* search_matching_foods: the returned list
    previous,           \* the arguments, query log and result of the call before this one
    pc                  \* position of the running call

vars == <<call, description, min_length, max_keywords, words, i, keywords,
          unique_keywords, search_keywords, limit_per_keyword, max_total,
          catalog, idx, foods, food_scores, lookups, unique_foods, previous, pc>>

extractVars == <<description, min_length, max_keywords, words, i, keywords,
                 unique_keywords>>

searchVars == <<search_keywords, limit_per_keyword, max_total, idx, foods,
                food_scores, lookups, unique_foods, previous>>

----------------------------------------------------------------------------
(* Strings                                                                 *)

Min(a, b) == IF a <= b THEN a ELSE b

\* s[:n] for n >= 0
Take(s, n) == SubSeq(s, 1, Min(n, Len(s)))

\* s[n:] for n >= 0
Drop(s, n) == SubSeq(s, n + 1, Len(s))

Range(s) == {s[k] : k \in DOMAIN s}

LowerMap ==
    [A |-> "a", B |-> "b", C |-> "c", D |-> "d", E |-> "e", F |-> "f",
     G |-> "g", H |-> "h", I |-> "i", J |-> "j", K |-> "k", L |-> "l",
     M |-> "m", N |-> "n", O |-> "o", P |-> "p", Q |-> "q", R |-> "r",
     S |-> "s", T |-> "t", U |-> "u", V |-> "v", W |-> "w", X |-> "x",
     Y |-> "y", Z |-> "z"]

\* str.lower()
Lower(s) == [k \in DOMAIN s |-> IF s[k] \in DOMAIN LowerMap THEN LowerMap[s[k]] ELSE s[k]]

StartsWith(s, p) == Len(p) <= Len(s) /\ SubSeq(s, 1, Len(p)) = p

EndsWith(s, p) == Len(p) <= Len(s) /\ SubSeq(s, Len(s) - Len(p) + 1, Len(s)) = p

\* str.replace(old, ''): every non-overlapping occurrence of old, left to right
RECURSIVE Remove(_, _)
Remove(s, old) ==
    IF s = <<>> THEN <<>>
    ELSE IF StartsWith(s, old) THEN Remove(Drop(s, Len(old)), old)
    ELSE <<Head(s)>> \o Remove(Tail(s), old)

Whitespace == {" ", "\n", "\t"}

\* str.split(): the maximal runs of non-whitespace characters
RECURSIVE Split(_, _)
Split(s, cur) ==
    IF s = <<>> THEN (IF cur = <<>> THEN <<>> ELSE <<cur>>)
    ELSE IF Head(s) \in Whitespace
         THEN (IF cur = <<>> THEN <<>> ELSE <<cur>>) \o Split(Tail(s), <<>>)
         ELSE Split(Tail(s), Append(cur, Head(s)))

StripChars == {".", ",", "!", "?", ";", ":", "(", ")", "[", "]"}

RECURSIVE LStrip(_)
LStrip(s) == IF s # <<>> /\ Head(s) \in StripChars THEN LStrip(Tail(s)) ELSE s

RECURSIVE RStrip(_)
RStrip(s) ==
    IF s # <<>> /\ s[Len(s)] \in StripChars THEN RStrip(SubSeq(s, 1, Len(s) - 1)) ELSE s

\* as StripWord, but only the leading characters are stripped
StripWordLeftOnly(s) == LStrip(s)

\* word.strip('.,!?;:()[]')
StripWord(s) == RStrip(LStrip(s))

Digits == {"0", "1", "2", "3", "4", "5", "6", "7", "8", "9"}

\* str.isdigit()
IsDigit(s) == s # <<>> /\ \A k \in DOMAIN s : s[k] \in Digits

----------------------------------------------------------------------------
(* extract_food_keywords                                                   *)

STOPWORDS == {
    <<"w", "i", "t", "h">>,
    <<"t", "h", "i", "s">>,
    <<"t", "h", "a", "t">>,
    <<"f", "r", "o", "m">>,
    <<"h", "a", "v", "e">>,
    <<"p", "l", "a", "t", "e">>,
    <<"t", "a", "b", "l", "e">>,
    <<"w", "h", "i", "t", "e">>,
    <<"b", "l", "a", "c", "k">>,
    <<"f", "o", "o", "d">>,
    <<"b", "o", "w", "l">>,
    <<"d", "i", "s", "h">>,
    <<"s", "e", "r", "v", "e", "d">>,
    <<"t", "h", "e", "r", "e">>,
    <<"s", "i", "t", "t", "i", "n", "g">>,
    <<"t", "o", "p">>,
    <<"n", "e", "x", "t">>,
    <<"i", "m", "a", "g", "e">>,
    <<"p", "h", "o", "t", "o">>,
    <<"p", "i", "c", "t", "u", "r", "e">>,
    <<"s", "h", "o", "w", "s">>,
    <<"c", "o", "n", "t", "a", "i", "n", "s">>,
    <<"f", "e", "a", "t", "u", "r", "e", "s">>,
    <<"a", "p", "p", "e", "a", "r", "s">>,
    <<"l", "o", "o", "k", "s">>,
    <<"l", "i", "k", "e">>,
    <<"h", "e", "r", "e", "'", "s">>,
    <<"a", "n", "a", "l", "y", "s", "i", "s">>,
    <<"v", "i", "s", "i", "b", "l", "e">>,
    <<"e", "s", "t", "i", "m", "a", "t", "e", "d">>,
    <<"p", "o", "r", "t", "i", "o", "n">>,
    <<"s", "i", "z", "e">>,
    <<"a", "p", "p", "r", "o", "x", "i", "m", "a", "t", "e", "l", "y">>,
    <<"p", "r", "e", "p", "a", "r", "a", "t", "i", "o", "n">>,
    <<"m", "e", "t", "h", "o", "d">>,
    <<"m", "a", "i", "n">>,
    <<"i", "t", "e", "m", "s">>,
    <<"i", "n", "g", "r", "e", "d", "i", "e", "n", "t", "s">>,
    <<"s", "i", "n", "g", "l", "e">>,
    <<"s", "u", "b", "s", "t", "a", "n", "t", "i", "a", "l">>,
    <<"s", "e", "r", "v", "i", "n", "g">>,
    <<"l", "i", "k", "e", "l", "y">>,
    <<"s", "i", "m", "i", "l", "a", "r">>,
    <<"i", "n", "c", "h", "e", "s">>,
    <<"l", "e", "n", "g", "t", "h">>
}

food_indicators == {<<"m", "a", "i", "n">>, <<"i", "n", "g", "r", "e", "d", "i", "e", "n", "t", "s">>, <<"i", "t", "e", "m", "s">>, <<"f", "o", "o", "d">>}

DefaultMinLength == 3
DefaultMaxKeywords == 10
DefaultLimitPerKeyword == 3
DefaultMaxTotal == 8

\* text = description.lower(); text.replace('**', '').replace('*', '').replace('#', '')
CleanText(d) == Remove(Remove(Remove(Lower(d), <<"*", "*">>), <<"*">>), <<"#">>)

\* words = text.split()
SplitWords(d) == Split(CleanText(d), <<>>)

\* as Skipped, without the isdigit() test
SkippedKeepsNumbers(clean_word, minlen) ==
    \/ clean_word \in STOPWORDS
    \/ Len(clean_word) <= minlen
    \/ EndsWith(clean_word, <<".">>)

\* as Skipped, with len(clean_word) < min_length
SkippedStrictLength(clean_word, minlen) ==
    \/ clean_word \in STOPWORDS
    \/ Len(clean_word) < minlen
    \/ IsDigit(clean_word)
    \/ EndsWith(clean_word, <<".">>)

\* the two `continue` tests of the loop body
Skipped(clean_word, minlen) ==
    \/ clean_word \in STOPWORDS
    \/ Len(clean_word) <= minlen
    \/ IsDigit(clean_word)
    \/ EndsWith(clean_word, <<".">>)

\* i > 0 and words[i-1].strip(...) in food_indicators   (k is the 1-based index)
AfterIndicator(ws, k) == k > 1 /\ StripWord(ws[k - 1]) \in food_indicators

\* as InsertFront, but keywords.append(clean_word)
InsertBack(ks, w) == Append(ks, w)

\* keywords.insert(0, clean_word)
InsertFront(ks, w) == <<w>> \o ks

\* one pass of the loop body over words[k]
AddWord(ks, ws, k, minlen) ==
    LET clean_word == StripWord(ws[k]) IN
    IF Skipped(clean_word, minlen) THEN ks
    ELSE IF AfterIndicator(ws, k) THEN InsertFront(ks, clean_word)
    ELSE Append(ks, clean_word)

\* as Dedup, but the last occurrence of a keyword is the one kept
RECURSIVE DedupKeepsLast(_, _)
DedupKeepsLast(ks, seen) ==
    IF ks = <<>> THEN <<>>
    ELSE IF ks[Len(ks)] \in seen THEN DedupKeepsLast(SubSeq(ks, 1, Len(ks) - 1), seen)
    ELSE Append(DedupKeepsLast(SubSeq(ks, 1, Len(ks) - 1), seen \cup {ks[Len(ks)]}),
                ks[Len(ks)])

\* the seen/unique_keywords loop: first occurrences, in order
RECURSIVE Dedup(_, _)
Dedup(ks, seen) ==
    IF ks = <<>> THEN <<>>
    ELSE IF Head(ks) \in seen THEN Dedup(Tail(ks), seen)
    ELSE <<Head(ks)>> \o Dedup(Tail(ks), seen \cup {Head(ks)})

\* unique_keywords[:max_keywords]
Truncate(ks, n) == Take(ks, n)

----------------------------------------------------------------------------
(* search_matching_foods                                                   *)

\* SQL LIKE: % matches any run of characters, _ any one character
RECURSIVE LikeMatch(_, _)
LikeMatch(p, s) ==
    IF p = <<>> THEN s = <<>>
    ELSE IF Head(p) = "%"
         THEN LikeMatch(Tail(p), s) \/ (s # <<>> /\ LikeMatch(p, Tail(s)))
    ELSE IF Head(p) = "_"
         THEN s # <<>> /\ LikeMatch(Tail(p), Tail(s))
    ELSE s # <<>> /\ Head(s) = Head(p) /\ LikeMatch(Tail(p), Tail(s))

\* as ILike, but a case-sensitive LIKE
LikeCaseSensitive(name, keyword) == LikeMatch(<<"%">> \o keyword \o <<"%">>, name)

\* Food.name.ilike(f'%{keyword}%')
ILike(name, keyword) == LikeMatch(Lower(<<"%">> \o keyword \o <<"%">>), Lower(name))

\* the rows the filter selects
Matching(cat, keyword) == {f \in cat : ILike(f.name, keyword)}

\* as QueryResults, but a limit of 0 is taken as "no limit"
QueryResultsZeroUnlimited(cat, keyword, limit) ==
    LET M == Matching(cat, keyword)
        n == IF limit = 0 THEN Cardinality(M) ELSE Min(limit, Cardinality(M))
    IN {s \in [1..n -> M] : \A a, b \in 1..n : a # b => s[a] # s[b]}

\* as QueryResults, but the store returns one row more than the limit
QueryResultsOneMore(cat, keyword, limit) ==
    LET M == Matching(cat, keyword)
        n == Min(limit + 1, Cardinality(M))
    IN {s \in [1..n -> M] : \A a, b \in 1..n : a # b => s[a] # s[b]}

\* .limit(limit_per_keyword).all(): the query has no ORDER BY, so the store may
\* return any limit_per_keyword of the selected rows, in any order
QueryResults(cat, keyword, limit) ==
    LET M == Matching(cat, keyword)
        n == Min(limit, Cardinality(M))
    IN {s \in [1..n -> M] : \A a, b \in 1..n : a # b => s[a] # s[b]}

ExactScore == 10
PrefixScore == 5
ContainsScore == 1

\* as MatchScore, but every match counts the same
MatchScoreFlat(name, keyword) == ContainsScore

\* match_score of a row for a keyword
MatchScore(name, keyword) ==
    IF Lower(name) = Lower(keyword) THEN ExactScore
    ELSE IF StartsWith(Lower(name), Lower(keyword)) THEN PrefixScore
    ELSE ContainsScore

\* as PositionScore, but with the keyword counted from 1
PositionScoreOneBased(n, k) == n - (k + 1)

\* position_score = len(keywords) - idx   (k is the 0-based index)
PositionScore(n, k) == n - k

\* total_score = position_score + match_score
TotalScore(n, k, name, keyword) == PositionScore(n, k) + MatchScore(name, keyword)

HasEntry(fs, id) == \E e \in DOMAIN fs : fs[e].id = id

EntryOf(fs, id) == fs[CHOOSE e \in DOMAIN fs : fs[e].id = id]

\* as Improves, but the last match always overwrites the entry
ImprovesAlways(fs, id, score) == TRUE

\* food_id not in food_scores or food_scores[food_id]['score'] < total_score
Improves(fs, id, score) == ~HasEntry(fs, id) \/ EntryOf(fs, id).score < score

\* as StoreEntry, but a replaced key is deleted and inserted again, so it goes last
StoreEntryMovesLast(fs, entry) ==
    LET keep == {e \in DOMAIN fs : fs[e].id # entry.id}
        rest == [e \in 1..Cardinality(keep) |->
                    fs[CHOOSE d \in keep : Cardinality({c \in keep : c < d}) = e - 1]]
    IN Append(rest, entry)

\* as StoreEntry, but the table is a list that is only appended to
StoreEntryAppends(fs, entry) == Append(fs, entry)

\* food_scores[food_id] = {...}: a new key goes last, an existing key keeps its place
StoreEntry(fs, entry) ==
    IF HasEntry(fs, entry.id)
    THEN [e \in DOMAIN fs |-> IF fs[e].id = entry.id THEN entry ELSE fs[e]]
    ELSE Append(fs, entry)

\* the body of `for food in foods` for one row
ScoreOne(fs, food, n, k, keyword) ==
    LET total_score == TotalScore(n, k, food.name, keyword) IN
    IF Improves(fs, food.id, total_score)
    THEN StoreEntry(fs, [id |-> food.id, food |-> food, score |-> total_score,
                         keyword |-> keyword])
    ELSE fs

\* where a stable descending sort puts e in an already sorted list
RECURSIVE InsertSorted(_, _)
InsertSorted(s, e) ==
    IF s = <<>> THEN <<e>>
    ELSE IF Head(s).score >= e.score THEN <<Head(s)>> \o InsertSorted(Tail(s), e)
    ELSE <<e>> \o s

\* sorted(food_scores.values(), key=lambda x: x['score'], reverse=True)
RECURSIVE SortedByScore(_)
SortedByScore(fs) ==
    IF fs = <<>> THEN <<>>
    ELSE InsertSorted(SortedByScore(SubSeq(fs, 1, Len(fs) - 1)), fs[Len(fs)])

\* [item['food'] for item in sorted_foods[:max_total]]
TopFoods(fs, n) ==
    LET top == Take(SortedByScore(fs), n) IN [k \in DOMAIN top |-> top[k].food]

----------------------------------------------------------------------------
(* Inputs                                                                  *)

MaxWords == 4
MaxKeywordsIn == 3
MaxKeywordsTwice == 2

\* join of raw tokens with single blanks
RECURSIVE JoinWords(_)
JoinWords(ts) ==
    IF ts = <<>> THEN <<>>
    ELSE IF Len(ts) = 1 THEN ts[1]
    ELSE ts[1] \o <<" ">> \o JoinWords(Tail(ts))

SeqsUpTo(S, n) == UNION {[1..k -> S] : k \in 0..n}

\* raw tokens of the generated descriptions: indicator words (with and without
\* punctuation), a food word and its capitalised, punctuated repetition, a
\* marked-up word, a stopword, a short word, a number
TokenPool == {
    <<"M", "a", "i", "n">>,
    <<"i", "t", "e", "m", "s", ":">>,
    <<"r", "i", "c", "e">>,
    <<"(", "R", "i", "c", "e", ")", ",">>,
    <<"#", "*", "*", "k", "a", "l", "e", "*", "*">>,
    <<"w", "i", "t", "h">>,
    <<"e", "g", "g">>,
    <<"2", "0", "2", "4">>
}

Descriptions == {JoinWords(ts) : ts \in SeqsUpTo(TokenPool, MaxWords)}

MinLengths == {0, DefaultMinLength}

MaxKeywordsValues == {0, 1, DefaultMaxKeywords}

\* descriptions the route is run on
CheeseburgerText ==
    <<"C", "h", "e", "e", "s", "e", "b", "u", "r", "g", "e", "r", " ", "w", "i", "t", "h", " ", "f", "r", "i", "e", "s", " ", "a", "n", "d", " ", "a", " ", "s", "i", "d", "e", " ", "s", "a", "l", "a", "d", ",", " ", "m", "e", "d", "i", "u", "m", " ", "p", "o", "r", "t", "i", "o", "n">>

SalmonText ==
    <<"M", "a", "i", "n", " ", "i", "n", "g", "r", "e", "d", "i", "e", "n", "t", "s", ":", " ", "g", "r", "i", "l", "l", "e", "d", " ", "s", "a", "l", "m", "o", "n", " ", "w", "i", "t", "h", " ", "a", "s", "p", "a", "r", "a", "g", "u", "s">>

MarkdownText ==
    <<"*", "*", "F", "o", "o", "d", " ", "i", "t", "e", "m", "s", ":", "*", "*", "\n", "1", ".", " ", "V", "e", "g", "g", "i", "e", " ", "B", "u", "r", "g", "e", "r", " ", "(", "1", " ", "s", "e", "r", "v", "i", "n", "g", ")", ",", " ", "2", ".", " ", "b", "u", "r", "g", "e", "r", ",", " ", "a", "p", "p", "r", "o", "x", "i", "m", "a", "t", "e", "l", "y", " ", "1", "2", "0", "0", " ", "c", "a", "l", "o", "r", "i", "e", "s">>

CourseText ==
    <<"M", "a", "i", "n", " ", "c", "o", "u", "r", "s", "e", ":", " ", "g", "r", "i", "l", "l", "e", "d", " ", "s", "a", "l", "m", "o", "n", ".", " ", "I", "n", "g", "r", "e", "d", "i", "e", "n", "t", "s", ":", " ", "a", "s", "p", "a", "r", "a", "g", "u", "s", ",", " ", "l", "e", "m", "o", "n">>

\* "rice" is promoted, then "kale", then "rice" again
RepeatedText ==
    <<"F", "o", "o", "d", ":", " ", "r", "i", "c", "e", ".", " ", "I", "t", "e", "m", "s", ":", " ", "k", "a", "l", "e", ".", " ", "M", "a", "i", "n", ":", " ", "r", "i", "c", "e", ",", " ", "b", "e", "a", "n", "s">>

RouteDescriptions ==
    {<<>>, <<" ">>, CheeseburgerText, SalmonText, MarkdownText, CourseText,
     RepeatedText}

Cheeseburger == [id |-> "c1", name |-> <<"C", "h", "e", "e", "s", "e", "b", "u", "r", "g", "e", "r">>]
FrenchFries == [id |-> "c2", name |-> <<"F", "r", "e", "n", "c", "h", " ", "F", "r", "i", "e", "s">>]
GardenSalad == [id |-> "c3", name |-> <<"G", "a", "r", "d", "e", "n", " ", "S", "a", "l", "a", "d">>]

RouteCatalog == {Cheeseburger, FrenchFries, GardenSalad}

Eggroll == [id |-> "e1", name |-> <<"E", "g", "g", "r", "o", "l", "l">>]
Eggs == [id |-> "e2", name |-> <<"E", "g", "g", "s">>]
Roll == [id |-> "e3", name |-> <<"R", "o", "l", "l">>]

SearchCatalog == {Eggroll, Eggs, Roll}

KeywordPool == {<<"e", "g", "g">>, <<"r", "o", "l", "l">>, <<"e", "g", "g", "r", "o", "l", "l">>}

KeywordSeqs == SeqsUpTo(KeywordPool, MaxKeywordsIn)

LimitValues == {0, 1, DefaultLimitPerKeyword}

MaxTotalValues == {0, 1, DefaultMaxTotal}

----------------------------------------------------------------------------
(* The calls                                                               *)

InitExtract ==
    /\ call = "extract"
    /\ description \in Descriptions
    /\ min_length \in MinLengths
    /\ max_keywords \in MaxKeywordsValues
    /\ search_keywords = <<>>
    /\ limit_per_keyword = DefaultLimitPerKeyword
    /\ max_total = DefaultMaxTotal
    /\ catalog = {}
    /\ pc = "extract"

InitSearch ==
    /\ call = "search"
    /\ description = <<>>
    /\ min_length = DefaultMinLength
    /\ max_keywords = DefaultMaxKeywords
    /\ search_keywords \in KeywordSeqs
    /\ limit_per_keyword \in LimitValues
    /\ max_total \in MaxTotalValues
    /\ catalog = SearchCatalog
    /\ pc = "query"

\* search_matching_foods called, and called again with the same arguments
InitTwice ==
    /\ call = "search_twice"
    /\ description = <<>>
    /\ min_length = DefaultMinLength
    /\ max_keywords = DefaultMaxKeywords
    /\ search_keywords \in SeqsUpTo(KeywordPool, MaxKeywordsTwice)
    /\ limit_per_keyword \in LimitValues
    /\ max_total = DefaultMaxTotal
    /\ catalog = SearchCatalog
    /\ pc = "query"

\* analyze_with_vision_model / analyze_food_advanced: both functions, defaults
InitRoute ==
    /\ call = "route"
    /\ description \in RouteDescriptions
    /\ min_length = DefaultMinLength
    /\ max_keywords = DefaultMaxKeywords
    /\ search_keywords = <<>>
    /\ limit_per_keyword = DefaultLimitPerKeyword
    /\ max_total = DefaultMaxTotal
    /\ catalog = RouteCatalog
    /\ pc = "extract"

\* nothing has run yet
InitLocals ==
    /\ words = <<>>
    /\ i = 0
    /\ keywords = <<>>
    /\ unique_keywords = <<>>
    /\ idx = 0
    /\ foods = <<>>
    /\ food_scores = <<>>
    /\ lookups = <<>>
    /\ unique_foods = <<>>
    /\ previous = <<>>

Init == (InitExtract \/ InitSearch \/ InitTwice \/ InitRoute) /\ InitLocals

\* lines 121-131: normalise, split, start the loop
ExtractBegin ==
    /\ pc = "extract"
    /\ words' = SplitWords(description)
    /\ i' = 0
    /\ keywords' = <<>>
    /\ pc' = "extract_loop"
    /\ UNCHANGED <<call, description, min_length, max_keywords, unique_keywords,
                   catalog>>
    /\ UNCHANGED searchVars

\* lines 133-149: one iteration of `for i, word in enumerate(words)`
ExtractWord ==
    /\ pc = "extract_loop"
    /\ i < Len(words)
    /\ keywords' = AddWord(keywords, words, i + 1, min_length)
    /\ i' = i + 1
    /\ UNCHANGED <<call, description, min_length, max_keywords, words,
                   unique_keywords, catalog, pc>>
    /\ UNCHANGED searchVars

\* lines 151-159: remove duplicates, truncate, return
ExtractReturn ==
    /\ pc = "extract_loop"
    /\ i = Len(words)
    /\ unique_keywords' = Truncate(Dedup(keywords, {}), max_keywords)
    /\ pc' = IF call = "route" THEN "extracted" ELSE "done"
    /\ UNCHANGED <<call, description, min_length, max_keywords, words, i, keywords,
                   catalog>>
    /\ UNCHANGED searchVars

\* the route: matching_foods = search_matching_foods(keywords)
RouteSearch ==
    /\ pc = "extracted"
    /\ search_keywords' = unique_keywords
    /\ idx' = 0
    /\ food_scores' = <<>>
    /\ pc' = "query"
    /\ UNCHANGED <<call, catalog, previous, limit_per_keyword, max_total, foods, lookups,
                   unique_foods>>
    /\ UNCHANGED extractVars

\* lines 169-171: the query of keywords[idx] returns its rows
Query ==
    /\ pc = "query"
    /\ idx < Len(search_keywords)
    /\ \E rows \in QueryResults(catalog, search_keywords[idx + 1], limit_per_keyword) :
        /\ lookups' = Append(lookups, [keyword |-> search_keywords[idx + 1], ok |-> TRUE, rows |-> rows])
        /\ foods' = rows
        /\ IF rows = <<>>
           THEN idx' = idx + 1 /\ pc' = "query"
           ELSE idx' = idx /\ pc' = "score"
    /\ UNCHANGED <<call, catalog, previous, search_keywords, limit_per_keyword, max_total,
                   food_scores, unique_foods>>
    /\ UNCHANGED extractVars

\* as QueryFail, but with the try around the whole loop: the first error ends it
QueryFailAborts ==
    /\ pc = "query"
    /\ idx < Len(search_keywords)
    /\ lookups' = Append(lookups, [keyword |-> search_keywords[idx + 1], ok |-> FALSE, rows |-> <<>>])
    /\ idx' = Len(search_keywords)
    /\ UNCHANGED <<call, catalog, previous, search_keywords, limit_per_keyword, max_total,
                   foods, food_scores, unique_foods, pc>>
    /\ UNCHANGED extractVars

\* as QueryFail, but with the rows fetched lazily (no .all()): the error arrives
\* after a first row was scored
QueryFailMidway ==
    /\ pc = "query"
    /\ idx < Len(search_keywords)
    /\ lookups' = Append(lookups, [keyword |-> search_keywords[idx + 1], ok |-> FALSE, rows |-> <<>>])
    /\ idx' = idx + 1
    /\ IF Matching(catalog, search_keywords[idx + 1]) = {}
       THEN food_scores' = food_scores
       ELSE \E f \in Matching(catalog, search_keywords[idx + 1]) :
               food_scores' = ScoreOne(food_scores, f, Len(search_keywords), idx,
                                       search_keywords[idx + 1])
    /\ UNCHANGED <<call, catalog, previous, search_keywords, limit_per_keyword, max_total,
                   foods, unique_foods, pc>>
    /\ UNCHANGED extractVars

\* lines 200-201: the query raises, the handler logs it, the loop goes on
QueryFail ==
    /\ pc = "query"
    /\ idx < Len(search_keywords)
    /\ lookups' = Append(lookups, [keyword |-> search_keywords[idx + 1], ok |-> FALSE, rows |-> <<>>])
    /\ idx' = idx + 1
    /\ UNCHANGED <<call, catalog, previous, search_keywords, limit_per_keyword, max_total,
                   foods, food_scores, unique_foods, pc>>
    /\ UNCHANGED extractVars

\* lines 173-198: one iteration of `for food in foods`
ScoreFood ==
    /\ pc = "score"
    /\ foods # <<>>
    /\ food_scores' = ScoreOne(food_scores, Head(foods), Len(search_keywords), idx,
                               search_keywords[idx + 1])
    /\ foods' = Tail(foods)
    /\ IF Tail(foods) = <<>>
       THEN idx' = idx + 1 /\ pc' = "query"
       ELSE idx' = idx /\ pc' = "score"
    /\ UNCHANGED <<call, catalog, previous, search_keywords, limit_per_keyword, max_total,
                   lookups, unique_foods>>
    /\ UNCHANGED extractVars

\* lines 203-207: sort, cut to max_total, return the rows
SortReturn ==
    /\ pc = "query"
    /\ idx = Len(search_keywords)
    /\ unique_foods' = TopFoods(food_scores, max_total)
    /\ pc' = "done"
    /\ UNCHANGED <<call, catalog, previous, search_keywords, limit_per_keyword, max_total, idx,
                   foods, food_scores, lookups>>
    /\ UNCHANGED extractVars

\* the record kept of a returned call
CallRecord ==
    [keywords |-> search_keywords, limit_per_keyword |-> limit_per_keyword,
     max_total |-> max_total, lookups |-> lookups, unique_foods |-> unique_foods]

\* as CallAgain, but with the score table at module level: it outlives the call
CallAgainKeepsTable ==
    /\ call = "search_twice"
    /\ pc = "done"
    /\ previous = <<>>
    /\ previous' = <<CallRecord>>
    /\ idx' = 0
    /\ foods' = <<>>
    /\ lookups' = <<>>
    /\ unique_foods' = <<>>
    /\ pc' = "query"
    /\ UNCHANGED <<call, catalog, search_keywords, limit_per_keyword, max_total,
                   food_scores>>
    /\ UNCHANGED extractVars

\* lines 162-164: the next call, with the same arguments and its own empty table
CallAgain ==
    /\ call = "search_twice"
    /\ pc = "done"
    /\ previous = <<>>
    /\ previous' = <<CallRecord>>
    /\ idx' = 0
    /\ foods' = <<>>
    /\ food_scores' = <<>>
    /\ lookups' = <<>>
    /\ unique_foods' = <<>>
    /\ pc' = "query"
    /\ UNCHANGED <<call, catalog, search_keywords, limit_per_keyword, max_total>>
    /\ UNCHANGED extractVars

Next ==
    \/ ExtractBegin
    \/ ExtractWord
    \/ ExtractReturn
    \/ RouteSearch
    \/ Query
    \/ QueryFail
    \/ ScoreFood
    \/ SortReturn
    \/ CallAgain

Spec == Init /\ [][Next]_vars

----------------------------------------------------------------------------
(* Properties of extract_food_keywords                                     *)

\* extract_food_keywords has returned
ExtractReturned == call # "search" /\ pc \notin {"extract", "extract_loop"}

\* the raw tokens of the description as written (before lower() and replace())
RawTokens == Split(description, <<>>)

\* C1: the returned keywords hold no stopword, no token of length <= min_length,
\* no purely numeric token, and no token twice
C1_ResultIsFiltered ==
    ExtractReturned =>
        \A k \in DOMAIN unique_keywords :
            /\ unique_keywords[k] \notin STOPWORDS
            /\ Len(unique_keywords[k]) > min_length
            /\ ~IsDigit(unique_keywords[k])
            /\ \A j \in DOMAIN unique_keywords : j # k => unique_keywords[j] # unique_keywords[k]

\* a returned result whose description held a stopword, a token that is too short,
\* a number longer than min_length and a repeated keyword
C1_Witness ==
    /\ ExtractReturned
    /\ unique_keywords # <<>>
    /\ \E k \in DOMAIN words : StripWord(words[k]) \in STOPWORDS
    /\ \E k \in DOMAIN words : Len(StripWord(words[k])) <= min_length
    /\ \E k \in DOMAIN words :
          IsDigit(StripWord(words[k])) /\ Len(StripWord(words[k])) > min_length
    /\ Len(Dedup(keywords, {})) < Len(keywords)

\* C2 as claimed: the cheeseburger description yields
\* cheeseburger, fries, salad, medium, portion
C2_AsClaimed ==
    (ExtractReturned /\ call = "route" /\ description = CheeseburgerText) =>
        unique_keywords = <<<<"c", "h", "e", "e", "s", "e", "b", "u", "r", "g", "e", "r">>, <<"f", "r", "i", "e", "s">>, <<"s", "a", "l", "a", "d">>, <<"m", "e", "d", "i", "u", "m">>,
                            <<"p", "o", "r", "t", "i", "o", "n">>>>

\* C2 amended: the cheeseburger description yields
\* cheeseburger, fries, side, salad, medium ("portion" is a stopword, "side" is not)
C2_CheeseburgerKeywords ==
    (ExtractReturned /\ call = "route" /\ description = CheeseburgerText) =>
        unique_keywords = <<<<"c", "h", "e", "e", "s", "e", "b", "u", "r", "g", "e", "r">>, <<"f", "r", "i", "e", "s">>, <<"s", "i", "d", "e">>, <<"s", "a", "l", "a", "d">>,
                            <<"m", "e", "d", "i", "u", "m">>>>

C2_Witness ==
    /\ call = "route"
    /\ description = CheeseburgerText
    /\ pc = "extracted"
    /\ Len(words) = 9

\* 1-based indices of the words, among the first n, that the loop promotes
Promoted(n) ==
    {k \in 1..n : ~Skipped(StripWord(words[k]), min_length) /\ AfterIndicator(words, k)}

SetMax(S) == CHOOSE m \in S : \A x \in S : x <= m

LastPromoted(n) == StripWord(words[SetMax(Promoted(n))])

\* C4: a promoted token goes to the front of the list, so the list under
\* construction, and the result when max_keywords >= 1, start with the last token
\* promoted; the salmon description yields "grilled" first
C4_PromotionToFront ==
    /\ (pc = "extract_loop" /\ Promoted(i) # {}) => keywords[1] = LastPromoted(i)
    /\ (ExtractReturned /\ max_keywords >= 1 /\ Promoted(Len(words)) # {}) =>
           /\ unique_keywords # <<>>
           /\ unique_keywords[1] = LastPromoted(Len(words))
    /\ (ExtractReturned /\ description = SalmonText) =>
           /\ unique_keywords # <<>>
           /\ unique_keywords[1] = <<"g", "r", "i", "l", "l", "e", "d">>

\* a result after two promotions of different tokens, with other keywords around
C4_Witness ==
    /\ ExtractReturned
    /\ max_keywords >= 1
    /\ \E a, b \in Promoted(Len(words)) : StripWord(words[a]) # StripWord(words[b])
    /\ \E k \in DOMAIN words :
          ~Skipped(StripWord(words[k]), min_length) /\ k \notin Promoted(Len(words))

\* C10: a description that is empty, or whose tokens, lower-cased and stripped, are
\* all stopwords or of length <= min_length, yields no keyword
C10_NothingToExtract ==
    (/\ ExtractReturned
     /\ \A k \in DOMAIN RawTokens :
           LET t == StripWord(Lower(RawTokens[k])) IN
           t \in STOPWORDS \/ Len(t) <= min_length)
    => unique_keywords = <<>>

\* a returned call on a description of a stopword and a token of length min_length
C10_Witness ==
    /\ ExtractReturned
    /\ unique_keywords = <<>>
    /\ \E k \in DOMAIN RawTokens : StripWord(Lower(RawTokens[k])) \in STOPWORDS
    /\ \E k \in DOMAIN RawTokens :
          /\ Len(StripWord(Lower(RawTokens[k]))) = min_length
          /\ min_length > 0
    /\ \A k \in DOMAIN RawTokens :
           LET t == StripWord(Lower(RawTokens[k])) IN
           t \in STOPWORDS \/ Len(t) <= min_length

----------------------------------------------------------------------------
(* Properties of search_matching_foods                                     *)

\* search_matching_foods has returned
SearchReturned == call # "extract" /\ pc = "done"

\* the rows that the queries issued so far returned: <<k, p>> is row p of the
\* query of keyword k (both 1-based)
Hits ==
    {h \in (DOMAIN lookups) \X (1..Cardinality(catalog)) :
        h[2] \in DOMAIN lookups[h[1]].rows}

HitRow(h) == lookups[h[1]].rows[h[2]]

HitsOf(id) == {h \in Hits : HitRow(h).id = id}

SeenIds == {HitRow(h).id : h \in Hits}

\* the score the code computes for a returned row
HitScore(h) ==
    TotalScore(Len(search_keywords), h[1] - 1, HitRow(h).name, search_keywords[h[1]])

BestScore(id) == SetMax({HitScore(h) : h \in HitsOf(id)})

\* keyword order, then order within the rows of one query
HitBefore(g, h) == g[1] < h[1] \/ (g[1] = h[1] /\ g[2] < h[2])

\* id a was first returned before id b was
SeenBefore(a, b) == \E g \in HitsOf(a) : \A h \in HitsOf(b) : HitBefore(g, h)

ResultIds == {unique_foods[p].id : p \in DOMAIN unique_foods}

AllLookupsOk == \A k \in DOMAIN lookups : lookups[k].ok

\* C3: extraction from the cheeseburger description, then the search over the
\* catalog of Cheeseburger, French Fries and Garden Salad with no failing query,
\* returns the three items, Cheeseburger first
C3_CheeseburgerRankedFirst ==
    (SearchReturned /\ call = "route" /\ description = CheeseburgerText /\ AllLookupsOk) =>
        /\ Len(unique_foods) = 3
        /\ Range(unique_foods) = {Cheeseburger, FrenchFries, GardenSalad}
        /\ unique_foods[1] = Cheeseburger

C3_Witness ==
    /\ SearchReturned
    /\ call = "route"
    /\ description = CheeseburgerText
    /\ catalog = {Cheeseburger, FrenchFries, GardenSalad}
    /\ AllLookupsOk
    /\ Len(lookups) = 5
    /\ Len(unique_foods) = 3

\* the query of keyword k returned x, named exactly as the keyword, and y, whose
\* name contains the keyword without being equal to it or starting with it
ExactAndContains(k, x, y) ==
    /\ k \in DOMAIN lookups
    /\ x \in Range(lookups[k].rows)
    /\ y \in Range(lookups[k].rows)
    /\ Lower(x.name) = search_keywords[k]
    /\ Lower(y.name) # search_keywords[k]
    /\ ~StartsWith(Lower(y.name), search_keywords[k])

ResultPos(id) == CHOOSE p \in DOMAIN unique_foods : unique_foods[p].id = id

\* x has the higher stored score and comes first when both are returned
RankedAbove(x, y) ==
    /\ EntryOf(food_scores, x.id).score > EntryOf(food_scores, y.id).score
    /\ ({x.id, y.id} \subseteq ResultIds => ResultPos(x.id) < ResultPos(y.id))

\* C5 as claimed: an exact match of a keyword is scored above, and returned
\* before, an item that merely contains that keyword
C5_AsClaimed ==
    SearchReturned =>
        \A k \in DOMAIN lookups : \A x, y \in catalog :
            ExactAndContains(k, x, y) => RankedAbove(x, y)

\* C5 amended: for that keyword the exact match gets the higher score; it has the
\* higher stored score and comes first provided no other keyword gave the
\* containing item a higher score than this keyword did
C5_ExactAboveContains ==
    SearchReturned =>
        \A k \in DOMAIN lookups : \A x, y \in catalog :
            ExactAndContains(k, x, y) =>
                LET n == Len(search_keywords)
                    sx == TotalScore(n, k - 1, x.name, search_keywords[k])
                    sy == TotalScore(n, k - 1, y.name, search_keywords[k])
                IN /\ sx > sy
                   /\ HasEntry(food_scores, x.id)
                   /\ HasEntry(food_scores, y.id)
                   /\ EntryOf(food_scores, y.id).score = sy => RankedAbove(x, y)

\* both kinds of match returned for the second of several keywords, both in the
\* result
C5_Witness ==
    /\ SearchReturned
    /\ \E k \in DOMAIN lookups : \E x, y \in catalog :
          /\ k > 1
          /\ ExactAndContains(k, x, y)
          /\ {x.id, y.id} \subseteq ResultIds
          /\ EntryOf(food_scores, y.id).score =
                TotalScore(Len(search_keywords), k - 1, y.name, search_keywords[k])

\* C6: the result is in descending order of best score, equal scores in the order
\* in which the ids were first returned by a query (also for an entry replaced
\* later), and no omitted item beats a returned one
C6_OrderedByScoreThenFirstSeen ==
    SearchReturned =>
        /\ \A p, q \in DOMAIN unique_foods :
              p < q =>
                LET a == unique_foods[p].id
                    b == unique_foods[q].id
                IN /\ BestScore(a) >= BestScore(b)
                   /\ BestScore(a) = BestScore(b) => SeenBefore(a, b)
        /\ \A o \in SeenIds \ ResultIds : \A r \in ResultIds : BestScore(o) <= BestScore(r)

\* two returned items tie, and the one seen first got its best score only from a
\* later keyword, after the other had its own
C6_Witness ==
    /\ SearchReturned
    /\ \E p, q \in DOMAIN unique_foods :
          LET a == unique_foods[p].id
              b == unique_foods[q].id
          IN /\ p < q
             /\ BestScore(a) = BestScore(b)
             /\ \E g \in HitsOf(a) : HitScore(g) < BestScore(a)
             /\ \E g \in HitsOf(a), h \in HitsOf(b) :
                   /\ HitScore(g) = BestScore(a)
                   /\ HitScore(h) = BestScore(b)
                   /\ HitBefore(h, g)
                   /\ \A f \in HitsOf(a) : HitScore(f) = BestScore(a) => ~HitBefore(f, h)

\* C7: no item id twice in the result, whose length is the minimum of max_total
\* and the number of distinct ids the queries returned
C7_DistinctAndCapped ==
    SearchReturned =>
        /\ \A p, q \in DOMAIN unique_foods :
              p # q => unique_foods[p].id # unique_foods[q].id
        /\ Len(unique_foods) = Min(max_total, Cardinality(SeenIds))
        /\ ResultIds \subseteq SeenIds

\* one id returned by two queries, and more distinct ids than max_total admits
C7_Witness ==
    /\ SearchReturned
    /\ \E id \in SeenIds : Cardinality(HitsOf(id)) >= 2
    /\ max_total > 0
    /\ Cardinality(SeenIds) > max_total
    /\ Len(unique_foods) = max_total

\* the step is a query raising an error
FailStep == Len(lookups') = Len(lookups) + 1 /\ ~lookups'[Len(lookups')].ok

\* C8: a failing query leaves the score table as it was and the loop goes on to the
\* next keyword; at the return every keyword was looked up and every row a query
\* returned is in the table (and in the result when max_total admits them all)
C8_FailureSkipsOneKeyword ==
    [][/\ FailStep =>
            /\ food_scores' = food_scores
            /\ idx' = idx + 1
            /\ pc' = "query"
       /\ (pc = "query" /\ pc' = "done") =>
            /\ Len(lookups) = Len(search_keywords)
            /\ \A h \in Hits : HasEntry(food_scores, HitRow(h).id)
            /\ Cardinality(SeenIds) <= max_total => SeenIds = {f.id : f \in Range(unique_foods')}
      ]_vars

\* of three keywords the second query failed; the result holds rows of the first
\* and of the third
C8_Witness ==
    /\ SearchReturned
    /\ Len(lookups) = 3
    /\ lookups[1].ok /\ ~lookups[2].ok /\ lookups[3].ok
    /\ \E a \in Range(lookups[1].rows), b \in Range(lookups[3].rows) :
          /\ a.id # b.id
          /\ a.id \notin {f.id : f \in Range(lookups[3].rows)}
          /\ b.id \notin {f.id : f \in Range(lookups[1].rows)}
          /\ {a.id, b.id} \subseteq ResultIds

\* C9: with no keyword, or with every query failing, the search returns the empty
\* list; the route on the empty description extracts nothing and finds nothing
C9_EmptyResult ==
    SearchReturned =>
        /\ (search_keywords = <<>> \/ \A k \in DOMAIN lookups : ~lookups[k].ok) =>
              unique_foods = <<>>
        /\ (call = "route" /\ description = <<>>) =>
              unique_keywords = <<>> /\ search_keywords = <<>> /\ unique_foods = <<>>

\* a returned search all of whose queries failed, on keywords that match rows
C9_Witness ==
    /\ SearchReturned
    /\ Len(search_keywords) >= 2
    /\ Len(lookups) = Len(search_keywords)
    /\ \A k \in DOMAIN lookups : ~lookups[k].ok
    /\ \A k \in DOMAIN search_keywords : Matching(catalog, search_keywords[k]) # {}
    /\ max_total > 0
    /\ limit_per_keyword > 0
    /\ unique_foods = <<>>

\* the second of two calls with the same arguments has returned
SecondReturned == call = "search_twice" /\ previous # <<>> /\ pc = "done"

C12_ZeroLimits ==
    SearchReturned =>
        /\ max_total = 0 => unique_foods = <<>>
        /\ limit_per_keyword = 0 =>
              /\ \A k \in DOMAIN lookups : lookups[k].rows = <<>>
              /\ food_scores = <<>>
              /\ unique_foods = <<>>

\* a call with max_total = 0 that returned nothing although two keywords matched rows
C12_Witness ==
    /\ SearchReturned
    /\ max_total = 0
    /\ limit_per_keyword > 0
    /\ Len(food_scores) >= 2
    /\ Cardinality({h[1] : h \in Hits}) >= 2
    /\ unique_foods = <<>>

\* the returned rows that the loop has scored so far
ScoredHits ==
    {h \in Hits : h[1] <= idx \/ h[2] <= Len(lookups[h[1]].rows) - Len(foods)}

ScoredHitsOf(id) == {h \in ScoredHits : HitRow(h).id = id}

\* every id scored so far has one entry; it holds the highest score computed so far
\* for the id and the keyword of the first match that reached that score
TableHoldsBest ==
    /\ \A e \in DOMAIN food_scores : ScoredHitsOf(food_scores[e].id) # {}
    /\ \A h \in ScoredHits :
          /\ HasEntry(food_scores, HitRow(h).id)
          /\ EntryOf(food_scores, HitRow(h).id).score >= HitScore(h)
    /\ \A e \in DOMAIN food_scores :
          \E g \in ScoredHitsOf(food_scores[e].id) :
              /\ HitScore(g) = food_scores[e].score
              /\ search_keywords[g[1]] = food_scores[e].keyword
              /\ \A h \in ScoredHitsOf(food_scores[e].id) :
                    HitScore(h) = HitScore(g) => ~HitBefore(h, g)

\* within a call an entry keeps its place, its score never goes down, and a match
\* that does not raise the score leaves the entry as it is
EntriesOnlyImprove ==
    pc # "done" =>
        \A e \in DOMAIN food_scores :
            /\ e \in DOMAIN food_scores'
            /\ food_scores'[e].id = food_scores[e].id
            /\ food_scores'[e].score >= food_scores[e].score
            /\ food_scores'[e].score = food_scores[e].score =>
                  food_scores'[e] = food_scores[e]

\* C13: at every point of a call the table holds, for each id, the highest score
\* computed so far; a match that does not exceed it changes neither score nor
\* keyword; a stored score never decreases
C13_TableKeepsBestScore == [][TableHoldsBest' /\ EntriesOnlyImprove]_vars

\* in the middle of a call: an entry that a later, lower match left alone, and an
\* entry that a later, higher match replaced
C13_Witness ==
    /\ call # "extract"
    /\ pc = "score"
    /\ \E g, h \in ScoredHits :
          /\ HitRow(g).id = HitRow(h).id
          /\ HitBefore(g, h)
          /\ HitScore(h) < HitScore(g)
          /\ EntryOf(food_scores, HitRow(g).id).score = HitScore(g)
          /\ EntryOf(food_scores, HitRow(g).id).keyword = search_keywords[g[1]]
    /\ \E g, h \in ScoredHits :
          /\ HitRow(g).id = HitRow(h).id
          /\ HitBefore(g, h)
          /\ HitScore(h) > HitScore(g)
          /\ EntryOf(food_scores, HitRow(g).id).score = HitScore(h)
          /\ EntryOf(food_scores, HitRow(g).id).keyword = search_keywords[h[1]]

\* the score as the claim states it, for the keyword at 0-based index k of n
ClaimedQuality(name, keyword) ==
    IF Lower(name) = Lower(keyword) THEN 10
    ELSE IF StartsWith(Lower(name), Lower(keyword)) THEN 5
    ELSE 1

ClaimedScore(n, k, name, keyword) == (n - k) + ClaimedQuality(name, keyword)

\* the entries that the step stores or replaces
StoredByStep ==
    {e \in DOMAIN food_scores' : e \notin DOMAIN food_scores \/ food_scores'[e] # food_scores[e]}

\* C14: the score stored for a row of the keyword at index idx of n keywords is
\* (n - idx) + q, q being 10 for an equal name, 5 for a name starting with the
\* keyword, 1 otherwise; n is the number of keywords passed in, failed ones included
C14_ScoreFormula ==
    [][pc = "score" =>
          \A e \in StoredByStep :
              /\ food_scores'[e].id = Head(foods).id
              /\ food_scores'[e].keyword = search_keywords[idx + 1]
              /\ food_scores'[e].score =
                    ClaimedScore(Len(search_keywords), idx, Head(foods).name,
                                 search_keywords[idx + 1])
      ]_vars

\* after a failed first query: entries stored for an exact match, for a prefix
\* match and for a containing match of later keywords
C14_Witness ==
    /\ call # "extract"
    /\ lookups # <<>>
    /\ ~lookups[1].ok
    /\ \A q \in {1, 5, 10} :
          \E e \in DOMAIN food_scores : \E k \in 2..Len(lookups) :
              /\ food_scores[e].keyword = search_keywords[k]
              /\ ClaimedQuality(food_scores[e].food.name, food_scores[e].keyword) = q
              /\ food_scores[e].score = (Len(search_keywords) - (k - 1)) + q

----------------------------------------------------------------------------
(* Further properties of extract_food_keywords                             *)

\* 1-based indices of the words that pass the filters, and their tokens
Passing == {k \in DOMAIN words : ~Skipped(StripWord(words[k]), min_length)}

PassTokens == {StripWord(words[k]) : k \in Passing}

\* place of the first occurrence of t in the accumulated list
FirstIndex(t) ==
    CHOOSE p \in DOMAIN keywords : keywords[p] = t /\ \A q \in 1..(p - 1) : keywords[q] # t

\* C15: the result is the accumulated list without repeated occurrences, cut to
\* max_keywords: as many elements as the minimum of max_keywords and the number of
\* distinct tokens that passed the filters, in the order of their first occurrence
\* in the list, the earliest ones kept
C15_FirstOccurrencesTruncated ==
    ExtractReturned =>
        /\ Len(unique_keywords) = Min(max_keywords, Cardinality(PassTokens))
        /\ Range(unique_keywords) \subseteq PassTokens
        /\ Range(keywords) = PassTokens
        /\ \A p, q \in DOMAIN unique_keywords :
              p < q => FirstIndex(unique_keywords[p]) < FirstIndex(unique_keywords[q])
        /\ \A t \in PassTokens \ Range(unique_keywords) :
              \A p \in DOMAIN unique_keywords :
                  FirstIndex(unique_keywords[p]) < FirstIndex(t)

\* a promoted token appears again later, tokens were discarded, and more distinct
\* tokens passed than max_keywords admits: the promoted token is still first
C15_Witness ==
    /\ ExtractReturned
    /\ \E a \in Promoted(Len(words)) : \E b \in Passing :
          /\ a < b
          /\ StripWord(words[a]) = StripWord(words[b])
          /\ unique_keywords # <<>>
          /\ unique_keywords[1] = StripWord(words[a])
    /\ Passing # DOMAIN words
    /\ max_keywords > 0
    /\ Cardinality(PassTokens) > max_keywords
    /\ Len(unique_keywords) = max_keywords

PromotedTokens == {StripWord(words[k]) : k \in Promoted(Len(words))}

\* 1-based index of the last word at which token t is promoted
LastPromotionOf(t) ==
    SetMax({k \in Promoted(Len(words)) : StripWord(words[k]) = t})

KeywordPos(t) == CHOOSE p \in DOMAIN unique_keywords : unique_keywords[p] = t

\* C16: of two distinct promoted tokens the one promoted last comes first in the
\* result (a token promoted more than once counts with its last promotion), and
\* every promoted token comes before every returned token that was never promoted
C16_LastPromotionFirst ==
    ExtractReturned =>
        /\ \A a, b \in PromotedTokens :
              (/\ a # b
               /\ LastPromotionOf(a) < LastPromotionOf(b)
               /\ a \in Range(unique_keywords))
              => /\ b \in Range(unique_keywords)
                 /\ KeywordPos(b) < KeywordPos(a)
        /\ \A u \in Range(unique_keywords) \ PromotedTokens :
              \A a \in PromotedTokens :
                  /\ a \in Range(unique_keywords)
                  /\ KeywordPos(a) < KeywordPos(u)

\* two promoted tokens, one of them promoted before and again after the other, and
\* a token that was never promoted, all three returned
C16_Witness ==
    /\ ExtractReturned
    /\ \E a, b \in PromotedTokens :
          /\ a # b
          /\ \E k \in Promoted(Len(words)) :
                StripWord(words[k]) = b /\ k < LastPromotionOf(a)
          /\ LastPromotionOf(a) < LastPromotionOf(b)
          /\ KeywordPos(b) < KeywordPos(a)
    /\ \E u \in Range(unique_keywords) : u \notin PromotedTokens

----------------------------------------------------------------------------
(* The order of the queries, and termination                               *)

\* the steps of search_matching_foods and of its caller calling it again
NextSearch ==
    \/ Query
    \/ QueryFail
    \/ ScoreFood
    \/ SortReturn
    \/ CallAgain

\* direct calls of search_matching_foods, once or twice, with the default
\* max_total: the final slice takes no part in the loop
InitSequential ==
    /\ InitSearch \/ InitTwice
    /\ InitLocals
    /\ max_total = DefaultMaxTotal

\* the loop takes its next step whenever it can: every query returns or raises,
\* and nothing else holds the call up
SearchSpec == InitSequential /\ [][NextSearch]_vars /\ WF_vars(NextSearch)

\* the queries issued so far are those of the first keywords, in order
QueriesFollowKeywords ==
    call # "extract" =>
        /\ Len(lookups) <= Len(search_keywords)
        /\ \A k \in DOMAIN lookups : lookups[k].keyword = search_keywords[k]
        /\ Len(lookups) = IF pc = "score" THEN idx + 1 ELSE idx
        /\ pc = "done" => Len(lookups) = Len(search_keywords)

\* a query is issued only when the rows of the one before it are all scored, and
\* it is added to the end of those issued before
QueryAfterScoring ==
    Len(lookups') > Len(lookups) =>
        /\ pc = "query"
        /\ foods = <<>>
        /\ Len(lookups') = Len(lookups) + 1
        /\ SubSeq(lookups', 1, Len(lookups)) = lookups

\* C17: a call on n keywords issues n queries, one per keyword and in keyword
\* order, each after the rows of the one before were scored; and it returns
C17_SequentialLookupsAndReturn ==
    /\ []QueriesFollowKeywords
    /\ [][QueryAfterScoring]_vars
    /\ (call # "extract" /\ pc \in {"query", "score"}) ~> (pc = "done")

\* a returned call on three keywords: one query failed, one returned several rows
C17_Witness ==
    /\ SearchReturned
    /\ Len(search_keywords) = 3
    /\ Len(lookups) = 3
    /\ \E k \in DOMAIN lookups : ~lookups[k].ok
    /\ \E k \in DOMAIN lookups : Len(lookups[k].rows) >= 2


\* the ids among the rows of the query of keyword k
RowIds(k) == {lookups[k].rows[p].id : p \in DOMAIN lookups[k].rows}

\* the lowest and the highest score line 190 can compute in a call: the last
\* keyword on a name that only contains it, the first keyword on an exact match
LowestScore == 1 + ContainsScore

HighestScore == Len(search_keywords) + ExactScore

\* C18: a query hands at most limit_per_keyword rows to the scoring loop, so each
\* keyword adds or updates at most that many entries of the score table; the table
\* and the result hold at most len(keywords) * limit_per_keyword items, every item
\* of the table and of the result was returned by the query of some keyword, and
\* every stored score lies between 2 and len(keywords) + 10
C18_TableBounds ==
    call # "extract" =>
        /\ \A k \in DOMAIN lookups :
              /\ Len(lookups[k].rows) <= limit_per_keyword
              /\ Cardinality(RowIds(k)) <= limit_per_keyword
        /\ \A e \in DOMAIN food_scores : food_scores[e].id \in SeenIds
        /\ Len(food_scores) <= Len(lookups) * limit_per_keyword
        /\ Len(unique_foods) <= Len(search_keywords) * limit_per_keyword
        /\ ResultIds \subseteq SeenIds
        /\ \A e \in DOMAIN food_scores :
              /\ food_scores[e].score >= LowestScore
              /\ food_scores[e].score <= HighestScore
        /\ \A p \in DOMAIN unique_foods :
              \E e \in DOMAIN food_scores : food_scores[e].id = unique_foods[p].id

\* a returned call of three keywords where the limit cut a query short, the result
\* holds len(keywords) * limit_per_keyword items, and both the lowest and the
\* highest score are stored
C18_Witness ==
    /\ SearchReturned
    /\ Len(search_keywords) = 3
    /\ \E k \in DOMAIN lookups :
          /\ Len(lookups[k].rows) = limit_per_keyword
          /\ Cardinality(Matching(catalog, search_keywords[k])) > limit_per_keyword
    /\ Len(unique_foods) = Len(search_keywords) * limit_per_keyword
    /\ \E e \in DOMAIN food_scores : food_scores[e].score = LowestScore
    /\ \E e \in DOMAIN food_scores : food_scores[e].score = HighestScore
=============================================================================
